---- MODULE Spec2Model ----
(***************************************************************************)
(* BLE peripheral manager (src/ble_base.py): the BLEManager object, its    *)
(* characteristics and services, and the radio stack (ubluetooth.BLE) seen *)
(* through the calls the manager makes on it.  Every public method and     *)
(* every branch of the event dispatcher _irq_handler is one action: the    *)
(* code is single-threaded and runs each handler to completion.            *)
(*                                                                         *)
(* Next to the program state, four variables describe the handler that ran *)
(* last: lastOp (which one, with its arguments), stackCalls (the radio     *)
(* stack calls it made, in order), cbCalls (the callbacks it invoked, in   *)
(* order), raised (the exception that left it, or NoException) and report  *)
(* (the diagnostic it printed last).                                       *)
(***************************************************************************)
EXTENDS Integers, Sequences, FiniteSets, TLC

\* ---------------------------------------------------------------- bounds
\* Handles the radio stack can hand out are 1..MaxHandle.
MaxHandle == 6
\* add_service is called at most MaxServices times.
MaxServices == 2

\* ------------------------------------------------------ values and names
\* Python's None, for a callback that is not registered.
None == "None"
\* BLECharacteristic.handle before registration (None in the code).
NoHandle == 0
\* gap_advertise(None): the interval argument of a stop request.
NoInterval == 0
\* Advertising.start's default interval.
DefaultInterval == 100
NoException == "none"

\* Connection ids the radio stack reports.
ConnIds == {5, 9}
Handles == 1..MaxHandle

\* Byte strings a central writes or the application notifies: "1:a" and a
\* byte that is not UTF-8.  EmptyBytes is b"".
EmptyBytes == <<>>
Values == {<<49, 58, 97>>, <<255>>}

\* Callbacks an application registers for connect / disconnect events.  The
\* second one raises.
Callbacks == {"cb_ok", "cb_raise"}

\* The characteristic objects, with the fields fixed at construction.
Chars == {"c1", "c2", "c3"}
CharUuid(c) == CASE c = "c1" -> "u1" [] c = "c2" -> "u2" [] c = "c3" -> "u3"
\* c1: the router's on_write (decodes the value); c2: notify-only, no
\* callback; c3: an application callback that raises.
CharWriteCallback(c) ==
    CASE c = "c1" -> "on_write" [] c = "c2" -> None [] c = "c3" -> "wcb_raise"
\* UUIDs notify is called with; "u9" belongs to no characteristic.
Uuids == {"u2", "u9"}
\* The service objects: their characteristics, in order (N = 3 and N = 0).
ServiceIds == {"s1", "s2"}
ServiceChars(s) ==
    CASE s = "s1" -> <<"c1", "c2", "c3">> [] s = "s2" -> <<>>
TxPowers == {4}

VARIABLES
    connections,             \* BLEManager.connections
    services,                \* BLEManager.services (sequence of service ids)
    characteristic_handles,  \* BLEManager.characteristic_handles: handle -> char
    handle,                  \* BLECharacteristic.handle, per characteristic
    value,                   \* BLECharacteristic.value, per characteristic
    connect_callback,        \* BLEManager.connect_callback
    disconnect_callback,     \* BLEManager.disconnect_callback
    gatts_db,                \* radio stack: handle -> characteristic it was issued for
    lastOp, stackCalls, cbCalls, raised, report,
    observed,                \* history: ids with a connect event and no disconnect event since
    observedSinceShutdown    \* history: the same, and no shutdown() since the connect event

progVars == <<connections, services, characteristic_handles, handle, value,
              connect_callback, disconnect_callback>>
stackVars == <<gatts_db>>
vars == <<connections, services, characteristic_handles, handle, value,
          connect_callback, disconnect_callback, gatts_db, lastOp, stackCalls, cbCalls, raised, report, observed,
          observedSinceShutdown>>
history == <<observed, observedSinceShutdown>>

\* ------------------------------------------------------------- records
\* The handler that ran, with its arguments (unused fields keep a default).
Op(name) ==
    [op |-> name, conn |-> 0, handle |-> NoHandle, value |-> EmptyBytes,
     uuid |-> None, service |-> None, handles |-> <<>>, cb |-> None,
     power |-> 0, rejected |-> FALSE]

\* One call on the radio stack.
Call(name) ==
    [call |-> name, conn |-> 0, handle |-> NoHandle, value |-> EmptyBytes,
     arg |-> 0]

GapAdvertise(interval) == [Call("gap_advertise") EXCEPT !.arg = interval]
GattsRead(h) == [Call("gatts_read") EXCEPT !.handle = h]
GattsNotify(conn, h, v) ==
    [Call("gatts_notify") EXCEPT !.conn = conn, !.handle = h, !.value = v]
Config(power) == [Call("config") EXCEPT !.arg = power]
Active(on) == [Call("active") EXCEPT !.arg = IF on THEN 1 ELSE 0]
GattsRegisterServices == Call("gatts_register_services")

\* One callback invocation: callback(conn, char, value); connect and
\* disconnect callbacks get the connection id only.
CbCall(cb, conn, c, v) == [cb |-> cb, conn |-> conn, char |-> c, value |-> v]

\* ------------------------------------------------------------- helpers
\* bytes.decode(): whether the bytes are well-formed UTF-8 (lead byte
\* followed by the continuation bytes it announces).
RECURSIVE utf8_check(_, _)
utf8_check(bytes, need) ==
    IF bytes = <<>> THEN need = 0
    ELSE LET c == Head(bytes) IN
         IF need > 0
         THEN (c >= 128 /\ c < 192) /\ utf8_check(Tail(bytes), need - 1)
         ELSE IF c < 128 THEN utf8_check(Tail(bytes), 0)
         ELSE IF c >= 192 /\ c < 224 THEN utf8_check(Tail(bytes), 1)
         ELSE IF c >= 224 /\ c < 240 THEN utf8_check(Tail(bytes), 2)
         ELSE IF c >= 240 /\ c < 248 THEN utf8_check(Tail(bytes), 3)
         ELSE FALSE

Decodes(bytes) == utf8_check(bytes, 0)

\* Whether a callback raises when invoked with value v.  on_write decodes
\* the value and hands it to write_handler, which catches what it raises.
CallbackRaises(cb, v) ==
    CASE cb = "cb_raise" -> TRUE
      [] cb = "wcb_raise" -> TRUE
      [] cb = "on_write" -> ~Decodes(v)
      [] OTHER -> FALSE

\* Advertising.start(interval): builds the payloads and submits them.
AdvertisingStart(interval) == <<GapAdvertise(interval)>>
\* Advertising.stop()
AdvertisingStop == <<GapAdvertise(NoInterval)>>

\* set.add / set.discard / set.clear
SetAdd(s, x) == s \cup {x}
\* Mutant of SetDiscard: the id is left in the set.
SetDiscardKeeps(s, x) == s
SetDiscard(s, x) == s \ {x}
\* Mutant of SetClear: the set is left as it is.
SetClearKeeps(s) == s
SetClear(s) == {}

\* ---------------------------------------------------------------- Init
\* The state after BLEManager.__init__: radio active, handler installed,
\* empty registries, no callbacks, set_tx_power called once (the stack may
\* reject it; the exception is caught).
Init ==
    /\ connections = {}
    /\ services = <<>>
    /\ characteristic_handles = <<>>
    /\ handle = [c \in Chars |-> NoHandle]
    /\ value = [c \in Chars |-> EmptyBytes]
    /\ connect_callback = None
    /\ disconnect_callback = None
    /\ gatts_db = <<>>
    /\ \E p \in TxPowers, rej \in BOOLEAN :
         /\ lastOp = [Op("init") EXCEPT !.power = p, !.rejected = rej]
         /\ stackCalls = <<Active(TRUE), Call("irq"), Config(p)>>
         /\ report = IF rej THEN "tx_power_error" ELSE "tx_power_set"
    /\ cbCalls = <<>>
    /\ raised = NoException
    /\ observed = {}
    /\ observedSinceShutdown = {}

\* ------------------------------------------------- the event dispatcher
\* _irq_handler, event == 1 (_IRQ_CENTRAL_CONNECT)
IrqConnect(conn) ==
    LET hasCb == connect_callback # None
        fails == hasCb /\ CallbackRaises(connect_callback, EmptyBytes)
    IN  /\ connections' = SetAdd(connections, conn)
        /\ cbCalls' = IF hasCb
                      THEN <<CbCall(connect_callback, conn, None, EmptyBytes)>>
                      ELSE <<>>
        /\ raised' = IF fails THEN "CallbackError" ELSE NoException
        /\ stackCalls' = <<>>
        /\ report' = "connected"
        /\ lastOp' = [Op("connect") EXCEPT !.conn = conn]
        /\ observed' = observed \cup {conn}
        /\ observedSinceShutdown' = observedSinceShutdown \cup {conn}
        /\ UNCHANGED <<services, characteristic_handles, handle, value,
                       connect_callback, disconnect_callback, stackVars>>

\* _irq_handler, event == 2 (_IRQ_CENTRAL_DISCONNECT): the callback runs
\* before advertising.start(), so an exception it raises skips the restart.
IrqDisconnect(conn) ==
    LET hasCb == disconnect_callback # None
        fails == hasCb /\ CallbackRaises(disconnect_callback, EmptyBytes)
        calls == IF fails THEN <<>> ELSE AdvertisingStart(DefaultInterval)
    IN  /\ connections' = SetDiscard(connections, conn)
        /\ cbCalls' = IF hasCb
                      THEN <<CbCall(disconnect_callback, conn, None, EmptyBytes)>>
                      ELSE <<>>
        /\ raised' = IF fails THEN "CallbackError" ELSE NoException
        /\ stackCalls' = calls
        /\ report' = IF fails THEN "disconnected" ELSE "advertising_started"
        /\ lastOp' = [Op("disconnect") EXCEPT !.conn = conn]
        /\ observed' = observed \ {conn}
        /\ observedSinceShutdown' = observedSinceShutdown \ {conn}
        /\ UNCHANGED <<services, characteristic_handles, handle, value,
                       connect_callback, disconnect_callback, gatts_db>>

\* _irq_handler, event == 3 (_IRQ_GATTS_WRITE): v is what gatts_read
\* returns for the attribute.  print(value.decode()) runs before the lookup.
IrqWrite(conn, attr, v) ==
    LET known == attr \in DOMAIN characteristic_handles
        char == characteristic_handles[attr]
        cb == CharWriteCallback(char)
    IN  /\ stackCalls' = <<GattsRead(attr)>>
        /\ IF ~Decodes(v)
           THEN /\ raised' = "UnicodeError"
                /\ cbCalls' = <<>>
                /\ report' = "none"
           ELSE /\ report' = "value"
                /\ IF known /\ cb # None
                   THEN /\ cbCalls' = <<CbCall(cb, conn, char, v)>>
                        /\ raised' = IF CallbackRaises(cb, v)
                                     THEN "CallbackError" ELSE NoException
                   ELSE /\ cbCalls' = <<>>
                        /\ raised' = NoException
        /\ lastOp' = [Op("write") EXCEPT !.conn = conn, !.handle = attr,
                                         !.value = v]
        /\ UNCHANGED <<progVars, stackVars, history>>

\* _irq_handler, any other event code: no branch is taken.
IrqOther ==
    /\ stackCalls' = <<>>
    /\ cbCalls' = <<>>
    /\ raised' = NoException
    /\ report' = "none"
    /\ lastOp' = Op("other_event")
    /\ UNCHANGED <<progVars, stackVars, history>>

\* ------------------------------------------------ callback registration
\* Mutant of RegisterConnectCallback: a callback already registered is
\* kept.
RegisterConnectCallbackKeepsFirst(cb) ==
    /\ connect_callback' = IF connect_callback = None THEN cb
                           ELSE connect_callback
    /\ stackCalls' = <<>>
    /\ cbCalls' = <<>>
    /\ raised' = NoException
    /\ report' = "none"
    /\ lastOp' = [Op("register_connect_callback") EXCEPT !.cb = cb]
    /\ UNCHANGED <<connections, services, characteristic_handles, handle,
                   value, disconnect_callback, stackVars, history>>

\* register_connect_callback
RegisterConnectCallback(cb) ==
    /\ connect_callback' = cb
    /\ stackCalls' = <<>>
    /\ cbCalls' = <<>>
    /\ raised' = NoException
    /\ report' = "none"
    /\ lastOp' = [Op("register_connect_callback") EXCEPT !.cb = cb]
    /\ UNCHANGED <<connections, services, characteristic_handles, handle,
                   value, disconnect_callback, stackVars, history>>

\* register_disconnect_callback
RegisterDisconnectCallback(cb) ==
    /\ disconnect_callback' = cb
    /\ stackCalls' = <<>>
    /\ cbCalls' = <<>>
    /\ raised' = NoException
    /\ report' = "none"
    /\ lastOp' = [Op("register_disconnect_callback") EXCEPT !.cb = cb]
    /\ UNCHANGED <<connections, services, characteristic_handles, handle,
                   value, connect_callback, stackVars, history>>

\* --------------------------------------------------------- set_tx_power
\* Mutant of SetTxPower: the stack's exception is not caught.
SetTxPowerUncaught(power, rejected) ==
    /\ stackCalls' = <<Config(power)>>
    /\ cbCalls' = <<>>
    /\ raised' = IF rejected THEN "OSError" ELSE NoException
    /\ report' = IF rejected THEN "none" ELSE "tx_power_set"
    /\ lastOp' = [Op("set_tx_power") EXCEPT !.power = power,
                                            !.rejected = rejected]
    /\ UNCHANGED <<progVars, stackVars, history>>

\* set_tx_power: the stack may reject the configuration; the exception is
\* caught and reported.
SetTxPower(power, rejected) ==
    /\ stackCalls' = <<Config(power)>>
    /\ cbCalls' = <<>>
    /\ raised' = NoException
    /\ report' = IF rejected THEN "tx_power_error" ELSE "tx_power_set"
    /\ lastOp' = [Op("set_tx_power") EXCEPT !.power = power,
                                            !.rejected = rejected]
    /\ UNCHANGED <<progVars, stackVars, history>>

\* ---------------------------------------------------------- add_service
\* Mutant of Put: the dict is rebuilt with the new entry only.
PutDropsOthers(f, k, v) == [x \in {k} |-> v]
\* f with key k set to v (dict assignment).
Put(f, k, v) == [x \in (DOMAIN f) \cup {k} |-> IF x = k THEN v ELSE f[x]]

\* Handle lists the stack can return for n characteristics: the next n
\* handles it has not issued yet, or none when it has fewer than n left
\* (the registration is then rejected).
FreshHandles(db, n) ==
    LET issued == Cardinality(DOMAIN db)
    IN  IF issued + n <= MaxHandle
        THEN {[i \in 1..n |-> issued + i]}
        ELSE {}

\* Sequences of n distinct elements of S.
InjSeqs(S, n) ==
    {q \in [1..n -> S] : \A i, j \in 1..n : i # j => q[i] # q[j]}

\* Mutant of ZipRegistry: every handle is registered to the first
\* characteristic of the service.
ZipRegistryFirstChar(reg, chars, hs) ==
    IF chars = <<>> THEN reg
    ELSE [h \in (DOMAIN reg) \cup {hs[i] : i \in DOMAIN hs} |->
             IF \E i \in DOMAIN hs : hs[i] = h THEN Head(chars) ELSE reg[h]]

\* The loop "for char, handle in zip(service.characteristics, handles[0])":
\* self.characteristic_handles[handle] = char
RECURSIVE ZipRegistry(_, _, _)
ZipRegistry(reg, chars, hs) ==
    IF chars = <<>> \/ hs = <<>> THEN reg
    ELSE ZipRegistry(Put(reg, Head(hs), Head(chars)), Tail(chars), Tail(hs))

\* The same loop: char.handle = handle
RECURSIVE ZipHandles(_, _, _)
ZipHandles(hmap, chars, hs) ==
    IF chars = <<>> \/ hs = <<>> THEN hmap
    ELSE ZipHandles([hmap EXCEPT ![Head(chars)] = Head(hs)],
                    Tail(chars), Tail(hs))

\* The radio stack's attribute table after it issued handles hs for chars.
DbAfter(db, chars, hs) ==
    [h \in (DOMAIN db) \cup {hs[i] : i \in DOMAIN hs} |->
        IF \E i \in DOMAIN hs : hs[i] = h
        THEN chars[CHOOSE i \in DOMAIN hs : hs[i] = h]
        ELSE db[h]]

\* add_service, the stack accepting the registration: it returns one handle
\* per characteristic, in the order submitted.
AddServiceOk(s) ==
    \E hs \in FreshHandles(gatts_db, Len(ServiceChars(s))) :
        /\ Len(services) < MaxServices
        /\ services' = Append(services, s)
        /\ handle' = ZipHandles(handle, ServiceChars(s), hs)
        /\ characteristic_handles' =
               ZipRegistry(characteristic_handles, ServiceChars(s), hs)
        /\ gatts_db' = DbAfter(gatts_db, ServiceChars(s), hs)
        /\ stackCalls' = <<GattsRegisterServices>>
        /\ cbCalls' = <<>>
        /\ raised' = NoException
        /\ report' = "service_added"
        /\ lastOp' = [Op("add_service") EXCEPT !.service = s, !.handles = hs]
        /\ UNCHANGED <<connections, value, connect_callback,
                       disconnect_callback, history>>

\* add_service, the stack rejecting the registration: the exception leaves
\* add_service after the service was appended to the service list.
AddServiceRejected(s) ==
    /\ Len(services) < MaxServices
    /\ services' = Append(services, s)
    /\ stackCalls' = <<GattsRegisterServices>>
    /\ cbCalls' = <<>>
    /\ raised' = "OSError"
    /\ report' = "none"
    /\ lastOp' = [Op("add_service") EXCEPT !.service = s, !.rejected = TRUE]
    /\ UNCHANGED <<connections, characteristic_handles, handle, value,
                   connect_callback, disconnect_callback, stackVars, history>>

\* --------------------------------------------------------------- notify
\* The characteristics of the services of the list, in iteration order.
RECURSIVE AllChars(_)
AllChars(svcs) ==
    IF svcs = <<>> THEN <<>>
    ELSE ServiceChars(Head(svcs)) \o AllChars(Tail(svcs))

\* Mutant of FirstMatch: the uuid comparison is lost, the first
\* characteristic is taken.
FirstMatchAny(chars, uuid) == IF chars = <<>> THEN None ELSE Head(chars)

\* The first characteristic whose uuid equals the argument, or None.
RECURSIVE FirstMatch(_, _)
FirstMatch(chars, uuid) ==
    IF chars = <<>> THEN None
    ELSE IF CharUuid(Head(chars)) = uuid THEN Head(chars)
    ELSE FirstMatch(Tail(chars), uuid)

\* Mutant of NotifyCalls: the loop is left after the first connection.
NotifyCallsFirstOnly(order, h, v) ==
    IF order = <<>> THEN <<>> ELSE <<GattsNotify(order[1], h, v)>>

\* "for conn_handle in self.connections: gatts_notify(conn_handle, handle, value)"
\* for one iteration order of the set.
NotifyCalls(order, h, v) ==
    [i \in 1..Len(order) |-> GattsNotify(order[i], h, v)]

Notify(uuid, v) ==
    LET char == FirstMatch(AllChars(services), uuid)
    IN  /\ IF char # None
           THEN /\ value' = [value EXCEPT ![char] = v]
                /\ \E order \in InjSeqs(connections, Cardinality(connections)) :
                       stackCalls' = NotifyCalls(order, handle[char], v)
                /\ report' = "notification_sent"
           ELSE /\ value' = value
                /\ stackCalls' = <<>>
                /\ report' = "not_found"
        /\ cbCalls' = <<>>
        /\ raised' = NoException
        /\ lastOp' = [Op("notify") EXCEPT !.uuid = uuid, !.value = v]
        /\ UNCHANGED <<connections, services, characteristic_handles, handle,
                       connect_callback, disconnect_callback, stackVars,
                       history>>

\* ------------------------------------------------------------- shutdown
\* shutdown: connections.clear(), advertising.stop(), ble.active(False)
Shutdown ==
    LET calls == AdvertisingStop \o <<Active(FALSE)>>
    IN  /\ connections' = SetClear(connections)
        /\ stackCalls' = calls
        /\ cbCalls' = <<>>
        /\ raised' = NoException
        /\ report' = "shut_down"
        /\ lastOp' = Op("shutdown")
        /\ observedSinceShutdown' = {}
        /\ UNCHANGED <<services, characteristic_handles, handle, value,
                       connect_callback, disconnect_callback, gatts_db,
                       observed>>

\* ======================================================================
\* Channel Router (src/ble_ranger.py): BLERanger.write_handler and
\* register_channel.  Text is a sequence of one-character strings.  The
\* router has one field, channel_callbacks; routerOp, dispatched, aborted,
\* routerRaised and routerReport describe the router method that ran last:
\* its arguments, the channel callbacks it invoked (with the index of the
\* segment each came from), whether its loop was left by a break, the
\* exception that left it, and the line it printed last.  abortedBefore
\* and replacedCb are history variables: whether the method before the
\* last one was a write left by a break, and the callback that the last
\* register_channel found registered for its channel (None if none).

\* Exhaustive inputs: every text of at most MaxLen characters of Alphabet.
MaxLen == 3
Alphabet == {"1", ":", ";"}
ShortTexts == UNION {[1..n -> Alphabet] : n \in 0..MaxLen}
\* Longer inputs.
Examples ==
    {
     \* "1:up;2:left;3:"
     <<"1", ":", "u", "p", ";", "2", ":", "l", "e", "f", "t", ";", "3", ":">>,
     \* "x:bad;1:up"
     <<"x", ":", "b", "a", "d", ";", "1", ":", "u", "p">>,
     \* "1:a:b"
     <<"1", ":", "a", ":", "b">>,
     \* "5;1:up"
     <<"5", ";", "1", ":", "u", "p">>,
     \* "3:x;1:up"
     <<"3", ":", "x", ";", "1", ":", "u", "p">>,
     \* "+1:x;2:y"
     <<"+", "1", ":", "x", ";", "2", ":", "y">>,
     \* " 2 :y"
     <<" ", "2", " ", ":", "y">>,
     \* "1:up;;2:left;"
     <<"1", ":", "u", "p", ";", ";", "2", ":", "l", "e", "f", "t", ";">>,
     \* "1:up;x:bad;2:left"
     <<"1", ":", "u", "p", ";", "x", ":", "b", "a", "d", ";",
       "2", ":", "l", "e", "f", "t">>,
     \* "x"
     <<"x">>,
     \* "-1:x"
     <<"-", "1", ":", "x">>
    }
Texts == ShortTexts \cup Examples

\* Channel ids and callbacks an application registers; the last one raises.
Channels == {1, 2, 3}
ChannelCallbacks == {"ch_a", "ch_raise"}
ChannelCallbackRaises(cb) == cb = "ch_raise"

VARIABLES
    channel_callbacks,  \* BLERanger.channel_callbacks: channel -> callback
    routerOp, dispatched, aborted, routerRaised, routerReport, abortedBefore,
    replacedCb

routerVars == <<channel_callbacks, routerOp, dispatched, aborted, routerRaised,
                routerReport, abortedBefore, replacedCb>>

ROp(name) == [op |-> name, text |-> <<>>, channel |-> 0, cb |-> None]
\* One invocation callback(channel, data), made for segment number seg.
ChCall(seg, cb, channel, data) ==
    [seg |-> seg, cb |-> cb, channel |-> channel, data |-> data]

\* str.split(sep): the fields between the separators ("" gives [""]).
RECURSIVE Split(_, _)
Split(s, sep) ==
    IF \A i \in DOMAIN s : s[i] # sep THEN <<s>>
    ELSE LET i == CHOOSE k \in DOMAIN s :
                      s[k] = sep /\ \A m \in 1..(k - 1) : s[m] # sep
         IN  <<SubSeq(s, 1, i - 1)>> \o Split(SubSeq(s, i + 1, Len(s)), sep)

Digits == {"0", "1", "2", "3", "4", "5", "6", "7", "8", "9"}
DigitVal(c) ==
    CASE c = "0" -> 0 [] c = "1" -> 1 [] c = "2" -> 2 [] c = "3" -> 3
      [] c = "4" -> 4 [] c = "5" -> 5 [] c = "6" -> 6 [] c = "7" -> 7
      [] c = "8" -> 8 [] c = "9" -> 9

RECURSIVE StripLeft(_)
StripLeft(s) == IF s # <<>> /\ Head(s) = " " THEN StripLeft(Tail(s)) ELSE s
RECURSIVE StripRight(_)
StripRight(s) ==
    IF s # <<>> /\ s[Len(s)] = " " THEN StripRight(SubSeq(s, 1, Len(s) - 1))
    ELSE s

RECURSIVE DigitsValue(_, _)
DigitsValue(s, acc) ==
    IF s = <<>> THEN acc ELSE DigitsValue(Tail(s), 10 * acc + DigitVal(Head(s)))

\* int(token): surrounding blanks are skipped, one sign is allowed, the rest
\* must be one or more decimal digits; otherwise ValueError (ok = FALSE).
ParseInt(token) ==
    LET t == StripRight(StripLeft(token))
        signed == t # <<>> /\ Head(t) \in {"+", "-"}
        body == IF signed THEN Tail(t) ELSE t
        good == body # <<>> /\ \A i \in DOMAIN body : body[i] \in Digits
    IN  IF ~good THEN [ok |-> FALSE, val |-> 0]
        ELSE [ok |-> TRUE,
              val |-> IF signed /\ Head(t) = "-"
                      THEN 0 - DigitsValue(body, 0)
                      ELSE DigitsValue(body, 0)]

\* Mutant of Command: a segment without ":" is taken as a command with
\* empty data.
CommandColonOptional(reg, seg, command) ==
    LET rcv == Split(command, ":")
        p == ParseInt(rcv[1])
        data == IF Len(rcv) < 2 THEN <<>> ELSE rcv[2]
    IN  IF Len(command) = 0 THEN [kind |-> "skip", calls |-> <<>>]
        ELSE IF ~p.ok THEN [kind |-> "invalid", calls |-> <<>>]
        ELSE IF p.val \in DOMAIN reg
             THEN [kind |-> IF ChannelCallbackRaises(reg[p.val])
                            THEN "failed" ELSE "called",
                   calls |-> <<ChCall(seg, reg[p.val], p.val, data)>>]
        ELSE [kind |-> "unhandled", calls |-> <<>>]

\* One pass of the loop body of write_handler for segment number seg:
\* "skip" (empty segment), "invalid" (int(rcv[0]) or rcv[1] raised),
\* "called", "failed" (the callback raised) or "unhandled".
Command(reg, seg, command) ==
    LET rcv == Split(command, ":")
        p == ParseInt(rcv[1])
    IN  IF Len(command) = 0 THEN [kind |-> "skip", calls |-> <<>>]
        ELSE IF ~p.ok \/ Len(rcv) < 2
             THEN [kind |-> "invalid", calls |-> <<>>]
        ELSE IF p.val \in DOMAIN reg
             THEN [kind |-> IF ChannelCallbackRaises(reg[p.val])
                            THEN "failed" ELSE "called",
                   calls |-> <<ChCall(seg, reg[p.val], p.val, rcv[2])>>]
        ELSE [kind |-> "unhandled", calls |-> <<>>]

\* Mutants of Breaks: a parse failure, respectively a failing callback, no
\* longer leaves the loop; an unhandled command leaves it too.
BreaksOnFailedOnly(kind) == kind = "failed"
BreaksOnInvalidOnly(kind) == kind = "invalid"
BreaksOnUnhandledToo(kind) == kind \in {"invalid", "failed", "unhandled"}
\* The two break statements of write_handler.
Breaks(kind) == kind \in {"invalid", "failed"}

\* What the loop body prints.
Printed(kind, before) ==
    CASE kind = "invalid" -> "invalid channel type"
      [] kind = "failed" -> "failed to handle data"
      [] kind = "unhandled" -> "unhandled write"
      [] OTHER -> before

\* "for command in commands": the loop from segment number seg on.
RECURSIVE RunCommands(_, _, _, _)
RunCommands(reg, commands, seg, acc) ==
    IF seg > Len(commands) THEN acc
    ELSE LET r == Command(reg, seg, commands[seg])
             next == [calls |-> acc.calls \o r.calls,
                      aborted |-> Breaks(r.kind),
                      report |-> Printed(r.kind, acc.report)]
         IN  IF Breaks(r.kind) THEN next
             ELSE RunCommands(reg, commands, seg + 1, next)

\* write_handler(value), as a function of the registry and the text.
WriteHandlerResult(reg, text) ==
    RunCommands(reg, Split(text, ";"), 1,
                [calls |-> <<>>, aborted |-> FALSE, report |-> "none"])

\* Mutant of SetChannel: an existing registration is kept.
SetChannelKeepsFirst(reg, channel, cb) ==
    IF channel \in DOMAIN reg THEN reg ELSE Put(reg, channel, cb)
\* self.channel_callbacks[channel] = callback
SetChannel(reg, channel, cb) == Put(reg, channel, cb)

\* The router after BLERanger.__init__: an empty channel registry.
RouterInit ==
    /\ channel_callbacks = <<>>
    /\ routerOp = ROp("init")
    /\ dispatched = <<>>
    /\ aborted = FALSE
    /\ routerRaised = NoException
    /\ routerReport = "none"
    /\ abortedBefore = FALSE
    /\ replacedCb = None

\* register_channel
RegisterChannel(channel, cb) ==
    /\ channel_callbacks' = SetChannel(channel_callbacks, channel, cb)
    /\ routerOp' = [ROp("register_channel") EXCEPT !.channel = channel,
                                                   !.cb = cb]
    /\ dispatched' = <<>>
    /\ aborted' = FALSE
    /\ routerRaised' = NoException
    /\ routerReport' = "none"
    /\ abortedBefore' = aborted
    /\ replacedCb' = IF channel \in DOMAIN channel_callbacks
                     THEN channel_callbacks[channel] ELSE None

\* Mutant of WriteHandler: an abort is remembered and the next write is
\* dropped.
WriteHandlerStickyAbort(text) ==
    \E r \in {WriteHandlerResult(channel_callbacks, text)} :
        /\ dispatched' = IF aborted THEN <<>> ELSE r.calls
        /\ aborted' = r.aborted
        /\ routerReport' = r.report
        /\ routerRaised' = NoException
        /\ routerOp' = [ROp("write_handler") EXCEPT !.text = text]
        /\ abortedBefore' = aborted
        /\ replacedCb' = None
        /\ UNCHANGED channel_callbacks

\* write_handler: both try blocks catch what the loop body raises, so no
\* exception leaves it.
WriteHandler(text) ==
    \E r \in {WriteHandlerResult(channel_callbacks, text)} :
        /\ dispatched' = r.calls
        /\ aborted' = r.aborted
        /\ routerReport' = r.report
        /\ routerRaised' = NoException
        /\ routerOp' = [ROp("write_handler") EXCEPT !.text = text]
        /\ abortedBefore' = aborted
        /\ replacedCb' = None
        /\ UNCHANGED channel_callbacks

\* ======================================================================
\* Advertisement builder (src/ble_base.py, class Advertising).  A name is
\* a sequence of code points, a UUID the sequence of its 16 bytes in the
\* order of its text form, a payload a sequence of bytes.  adv_name and
\* service_uuids are the fields of Advertising, advertising is the radio
\* stack's side (whether it is advertising); advOp and advCalls describe
\* the method that ran last and the gap_advertise calls it made, advRaised
\* the exception that left it; advPrevOp is a history variable, the method
\* that ran before the last one.

\* Exhaustive inputs: every name of at most MaxNameLen code points of
\* NameChars ("a", e acute, the euro sign, an emoji: one to four bytes of
\* UTF-8), every list of at most MaxUuids UUIDs of Uuid128s.
MaxNameLen == 2
MaxUuids == 2
NameChars == {97, 233, 8364, 128512}
Names == UNION {[1..n -> NameChars] : n \in 0..MaxNameLen}
Uuid128s == {[i \in 1..16 |-> i], [i \in 1..16 |-> 239 + i]}
Intervals == {DefaultInterval, 250}

VARIABLES
    adv_name,       \* Advertising.name
    service_uuids,  \* Advertising.service_uuids
    advertising,    \* radio stack: advertising is active
    advOp, advCalls, advRaised, advPrevOp

advVars == <<adv_name, service_uuids, advertising, advOp, advCalls, advRaised,
             advPrevOp>>

AdvOp(name) == [op |-> name, uuid |-> <<>>, interval |-> NoInterval]
\* gap_advertise(interval, adv_data, resp_data=...)
GapAdvertiseData(interval, adv_data, resp_data) ==
    [call |-> "gap_advertise", interval |-> interval, adv_data |-> adv_data,
     resp_data |-> resp_data]
\* gap_advertise(None)
GapAdvertiseStop ==
    [call |-> "gap_advertise", interval |-> NoInterval, adv_data |-> <<>>,
     resp_data |-> <<>>]

\* One element of a bytearray built from a list of ints.
Byte(n) == n % 256

\* bytes(ubluetooth.UUID(text)): the 16 bytes, last byte of the text first.
UuidBytes(u) == [i \in 1..Len(u) |-> u[Len(u) + 1 - i]]

\* str.encode("utf-8") of one code point.
Utf8Char(cp) ==
    IF cp < 128 THEN <<cp>>
    ELSE IF cp < 2048 THEN <<192 + (cp \div 64), 128 + (cp % 64)>>
    ELSE IF cp < 65536
         THEN <<224 + (cp \div 4096), 128 + ((cp \div 64) % 64),
                128 + (cp % 64)>>
    ELSE <<240 + (cp \div 262144), 128 + ((cp \div 4096) % 64),
           128 + ((cp \div 64) % 64), 128 + (cp % 64)>>
\* str.encode("utf-8")
RECURSIVE Utf8Encode(_)
Utf8Encode(s) ==
    IF s = <<>> THEN <<>> ELSE Utf8Char(Head(s)) \o Utf8Encode(Tail(s))

\* Mutant of BuildAdvPayload: a UUID that occurs earlier in the list is
\* left out.
RECURSIVE BuildUuidsDedup(_, _)
BuildUuidsDedup(uuids, k) ==
    IF k > Len(uuids) THEN <<>>
    ELSE (IF \E m \in 1..(k - 1) : uuids[m] = uuids[k] THEN <<>>
          ELSE <<Byte(Len(UuidBytes(uuids[k])) + 1), 7>>
                   \o UuidBytes(uuids[k]))
         \o BuildUuidsDedup(uuids, k + 1)
BuildAdvPayloadDedup(uuids) == <<2, 1, 6>> \o BuildUuidsDedup(uuids, 1)

\* The loop of _build_adv_payload over service_uuids.
RECURSIVE BuildUuids(_)
BuildUuids(uuids) ==
    IF uuids = <<>> THEN <<>>
    ELSE <<Byte(Len(UuidBytes(Head(uuids))) + 1), 7>>
             \o UuidBytes(Head(uuids)) \o BuildUuids(Tail(uuids))
\* _build_adv_payload
BuildAdvPayload(uuids) == <<2, 1, 6>> \o BuildUuids(uuids)

\* _build_scan_response
BuildScanResponse(name) ==
    <<Byte(Len(Utf8Encode(name)) + 1), 9>> \o Utf8Encode(name)

\* Advertising.__init__: a name, no UUIDs; the radio is not advertising.
AdvInit ==
    /\ adv_name \in Names
    /\ service_uuids = <<>>
    /\ advertising = FALSE
    /\ advOp = AdvOp("init")
    /\ advCalls = <<>>
    /\ advRaised = NoException
    /\ advPrevOp = AdvOp("init")

\* add_service_uuid
AddServiceUuid(u) ==
    /\ Len(service_uuids) < MaxUuids
    /\ service_uuids' = Append(service_uuids, u)
    /\ advOp' = [AdvOp("add_service_uuid") EXCEPT !.uuid = u]
    /\ advCalls' = <<>>
    /\ advRaised' = NoException
    /\ advPrevOp' = advOp
    /\ UNCHANGED <<adv_name, advertising>>

\* Mutant of AdvStart: every request is made with the default interval.
AdvStartDefaultInterval(interval) ==
    /\ advCalls' = <<GapAdvertiseData(DefaultInterval,
                                      BuildAdvPayload(service_uuids),
                                      BuildScanResponse(adv_name))>>
    /\ advertising' = TRUE
    /\ advOp' = [AdvOp("start") EXCEPT !.interval = interval]
    /\ advRaised' = NoException
    /\ advPrevOp' = advOp
    /\ UNCHANGED <<adv_name, service_uuids>>

\* Advertising.start(interval)
AdvStart(interval) ==
    /\ advCalls' = <<GapAdvertiseData(interval,
                                      BuildAdvPayload(service_uuids),
                                      BuildScanResponse(adv_name))>>
    /\ advertising' = TRUE
    /\ advOp' = [AdvOp("start") EXCEPT !.interval = interval]
    /\ advRaised' = NoException
    /\ advPrevOp' = advOp
    /\ UNCHANGED <<adv_name, service_uuids>>

\* Advertising.stop()
AdvStop ==
    /\ advCalls' = <<GapAdvertiseStop>>
    /\ advertising' = FALSE
    /\ advOp' = AdvOp("stop")
    /\ advRaised' = NoException
    /\ advPrevOp' = advOp
    /\ UNCHANGED <<adv_name, service_uuids>>

\* ======================================================================
\* BLERanger.__init__ (src/ble_ranger.py:11-41) as a sequence of steps with
\* radio events delivered between them: the stack's handler runs whenever
\* the interpreter is between two steps.  ctor_pc is the statement to run
\* next ("done" once the constructor returned); registry_exists says
\* whether self.channel_callbacks has been assigned.

VARIABLES ctor_pc, registry_exists

ctorVars == <<ctor_pc, registry_exists>>
allVars == <<vars, routerVars, advVars, ctorVars>>

\* Values a central writes to the router's characteristic: "1:a", a byte
\* that is not UTF-8, "" and "x".
CtorValues == Values \cup {EmptyBytes, <<120>>}
\* bytes.decode() of the bytes used here, character by character.
Chr(b) ==
    CASE b = 49 -> "1" [] b = 58 -> ":" [] b = 59 -> ";" [] b = 97 -> "a"
      [] b = 120 -> "x" [] OTHER -> "?"
BytesToText(v) == [i \in DOMAIN v |-> Chr(v[i])]
\* The name BLERanger passes on when the other components are idle.
DefaultName == <<97>>

\* One pass of the loop body of write_handler while self.channel_callbacks
\* is not assigned: "channel in self.channel_callbacks" raises
\* AttributeError inside the second try, which catches it and breaks.
CommandNoRegistry(command) ==
    LET rcv == Split(command, ":")
        p == ParseInt(rcv[1])
    IN  IF Len(command) = 0 THEN "skip"
        ELSE IF ~p.ok \/ Len(rcv) < 2 THEN "invalid"
        ELSE "failed"

RECURSIVE RunCommandsNoRegistry(_, _, _)
RunCommandsNoRegistry(commands, seg, acc) ==
    IF seg > Len(commands) THEN acc
    ELSE LET kind == CommandNoRegistry(commands[seg])
             next == [calls |-> <<>>,
                      aborted |-> Breaks(kind),
                      report |-> Printed(kind, acc.report)]
         IN  IF Breaks(kind) THEN next
             ELSE RunCommandsNoRegistry(commands, seg + 1, next)

\* write_handler entered before self.channel_callbacks exists.
WriteHandlerNoRegistry(text) ==
    \E r \in {RunCommandsNoRegistry(
                  Split(text, ";"), 1,
                  [calls |-> <<>>, aborted |-> FALSE, report |-> "none"])} :
        /\ dispatched' = r.calls
        /\ aborted' = r.aborted
        /\ routerReport' = r.report
        /\ routerRaised' = NoException
        /\ routerOp' = [ROp("write_handler") EXCEPT !.text = text]
        /\ abortedBefore' = aborted
        /\ replacedCb' = None
        /\ UNCHANGED channel_callbacks

\* on_write (ble_ranger.py:17-18) with a value that decodes.
OnWrite(text) ==
    IF registry_exists THEN WriteHandler(text)
    ELSE WriteHandlerNoRegistry(text)

\* The components as constructed, the constructor having returned.
Constructed == ctor_pc = "done" /\ registry_exists = TRUE

\* After line 12 of BLERanger.__init__: the manager exists, nothing else.
ConstructInit ==
    /\ Init
    /\ lastOp.rejected = FALSE
    /\ RouterInit
    /\ AdvInit
    /\ adv_name = DefaultName
    /\ ctor_pc = "add_service"
    /\ registry_exists = FALSE

\* line 36: self.ble_manager.add_service(service)
CtorAddService ==
    /\ ctor_pc = "add_service"
    /\ AddServiceOk("s1")
    /\ ctor_pc' = "set_advertising_service"
    /\ UNCHANGED <<routerVars, advVars, registry_exists>>

\* line 37: self.ble_manager.set_advertising_service(...)
CtorSetAdvertisingService ==
    /\ ctor_pc = "set_advertising_service"
    /\ \E u \in Uuid128s : AddServiceUuid(u)
    /\ ctor_pc' = "start"
    /\ UNCHANGED <<vars, routerVars, registry_exists>>

\* line 39: self.ble_manager.advertising.start()
CtorStart ==
    /\ ctor_pc = "start"
    /\ AdvStart(DefaultInterval)
    /\ ctor_pc' = "channel_callbacks"
    /\ UNCHANGED <<vars, routerVars, registry_exists>>

\* line 41: self.channel_callbacks = dict()
CtorChannelCallbacks ==
    /\ ctor_pc = "channel_callbacks"
    /\ channel_callbacks' = <<>>
    /\ registry_exists' = TRUE
    /\ ctor_pc' = "done"
    /\ UNCHANGED <<vars, advVars, routerOp, dispatched, aborted, routerRaised,
                   routerReport, abortedBefore, replacedCb>>

\* register_channel, called by the application after construction.
CtorRegisterChannel(channel, cb) ==
    /\ ctor_pc = "done"
    /\ RegisterChannel(channel, cb)
    /\ UNCHANGED <<vars, advVars, ctorVars>>

\* A central connects: possible while the radio advertises.
CtorConnect(conn) ==
    /\ advertising
    /\ conn \notin connections
    /\ IrqConnect(conn)
    /\ UNCHANGED <<routerVars, advVars, ctorVars>>

\* A connected central writes v to the router's characteristic: the
\* dispatcher decodes and prints it, then on_write hands the text to
\* write_handler.
CtorWrite(conn, v) ==
    /\ conn \in connections
    /\ handle["c1"] # NoHandle
    /\ IrqWrite(conn, handle["c1"], v)
    /\ IF Decodes(v) THEN OnWrite(BytesToText(v)) ELSE UNCHANGED routerVars
    /\ UNCHANGED <<advVars, ctorVars>>

ConstructNext ==
    \/ CtorAddService
    \/ CtorSetAdvertisingService
    \/ CtorStart
    \/ CtorChannelCallbacks
    \/ \E channel \in Channels, cb \in ChannelCallbacks :
           CtorRegisterChannel(channel, cb)
    \/ \E conn \in ConnIds : CtorConnect(conn)
    \/ \E conn \in ConnIds, v \in CtorValues : CtorWrite(conn, v)

\* The advertisement builder's methods.
AdvNext ==
    \/ \E u \in Uuid128s :
           AddServiceUuid(u) /\ UNCHANGED <<vars, routerVars, ctorVars>>
    \/ \E interval \in Intervals :
           AdvStart(interval) /\ UNCHANGED <<vars, routerVars, ctorVars>>
    \/ AdvStop /\ UNCHANGED <<vars, routerVars, ctorVars>>

\* The router's methods.
RouterNext ==
    \/ \E channel \in Channels, cb \in ChannelCallbacks :
           RegisterChannel(channel, cb)
           /\ UNCHANGED <<vars, advVars, ctorVars>>
    \/ \E text \in Texts :
           WriteHandler(text) /\ UNCHANGED <<vars, advVars, ctorVars>>

\* What the manager's methods leave alone.
idleVars == <<routerVars, advVars, ctorVars>>

\* The manager's methods and events; the other components are idle.
Next ==
    \/ \E conn \in ConnIds : IrqConnect(conn) /\ UNCHANGED idleVars
    \/ \E conn \in ConnIds : IrqDisconnect(conn) /\ UNCHANGED idleVars
    \/ \E conn \in ConnIds, attr \in Handles, v \in Values :
           IrqWrite(conn, attr, v) /\ UNCHANGED idleVars
    \/ IrqOther /\ UNCHANGED idleVars
    \/ \E cb \in Callbacks : RegisterConnectCallback(cb) /\ UNCHANGED idleVars
    \/ \E cb \in Callbacks :
           RegisterDisconnectCallback(cb) /\ UNCHANGED idleVars
    \/ \E p \in TxPowers, rej \in BOOLEAN :
           SetTxPower(p, rej) /\ UNCHANGED idleVars
    \/ \E s \in ServiceIds : AddServiceOk(s) /\ UNCHANGED idleVars
    \/ \E s \in ServiceIds : AddServiceRejected(s) /\ UNCHANGED idleVars
    \/ \E uuid \in Uuids, v \in Values : Notify(uuid, v) /\ UNCHANGED idleVars
    \/ Shutdown /\ UNCHANGED idleVars

\* The manager and the router as constructed.
SystemInit ==
    Init /\ RouterInit /\ AdvInit /\ adv_name = DefaultName /\ Constructed

\* The router's start for SpecRouter: the manager's state plays no part in
\* the router's methods, so one of its initial states is taken.
RouterSpecInit == SystemInit /\ lastOp.rejected = FALSE

\* The advertisement builder's start: any name.
AdvSpecInit ==
    Init /\ lastOp.rejected = FALSE /\ RouterInit /\ AdvInit /\ Constructed

\* The manager alone.
Spec == SystemInit /\ [][Next]_allVars

\* The router alone: the manager stays as constructed.
SpecRouter == RouterSpecInit /\ [][RouterNext]_allVars

\* The advertisement builder alone.
SpecAdv == AdvSpecInit /\ [][AdvNext]_allVars

\* The construction of a BLERanger with radio events in between.
SpecConstruct == ConstructInit /\ [][ConstructNext]_allVars

\* ================================================================ claims

\* Number of advertising start requests among the calls of a handler.
StartRequests(calls) ==
    Cardinality({i \in DOMAIN calls :
                    calls[i].call = "gap_advertise" /\ calls[i].arg # NoInterval})

\* Whether characteristic c belongs to a service of the service list.
InServices(c) ==
    \E i \in DOMAIN services :
        \E j \in DOMAIN ServiceChars(services[i]) :
            ServiceChars(services[i])[j] = c

\* C1: no exception escapes the event dispatcher, for any connect,
\* disconnect or write event, whatever the callbacks do and whatever bytes
\* were written.
C1_NoExceptionEscapesDispatcher ==
    lastOp.op \in {"connect", "disconnect", "write"} => raised = NoException

\* C2: every disconnect event the dispatcher handles issues an advertising
\* start request to the radio stack, whatever the disconnect callback does.
C2_DisconnectAlwaysRestartsAdvertising ==
    lastOp.op = "disconnect" => StartRequests(stackCalls) >= 1

\* C3 as stated: an id is in the connection set iff a connect event for it
\* was observed and no disconnect event for it was observed since.
C3_InSetIffConnectedAndNotDisconnected ==
    connections = observed

\* The handlers C3 says never change the connection set.
PassiveOps ==
    {"add_service", "notify", "set_tx_power", "write",
     "register_connect_callback", "register_disconnect_callback"}

\* C3 amended: an id is in the connection set iff a connect event for it was
\* observed and neither a disconnect event for it nor a shutdown happened
\* since; add_service, notify, set_tx_power, write events and callback
\* registration never change the connection set.
C3_InSetIffConnectedSinceShutdown ==
    /\ [](connections = observedSinceShutdown)
    /\ [][lastOp'.op \in PassiveOps => connections' = connections]_vars

\* C3 witness: a shutdown while a connect event had no disconnect event yet.
C3_Witness ==
    lastOp.op = "shutdown" /\ observed = {5, 9} /\ connections = {}

\* C4: a disconnect event for an id whose connect event was observed leaves
\* the id out of the connection set and issues exactly one advertising start
\* request.
C4_DisconnectAfterConnectRestartsOnce ==
    [][(lastOp'.op = "disconnect" /\ lastOp'.conn \in observed)
          => (/\ lastOp'.conn \notin connections'
              /\ StartRequests(stackCalls') = 1)]_vars

\* C5: a write event for a handle that is not in the handle registry invokes
\* no callback, changes neither the connection set nor the registry nor any
\* cached value, and does not raise, for any value read from the stack.
C5_UnknownHandleWriteDropped ==
    [][(lastOp'.op = "write"
           /\ lastOp'.handle \notin DOMAIN characteristic_handles)
          => (/\ cbCalls' = <<>>
              /\ connections' = connections
              /\ characteristic_handles' = characteristic_handles
              /\ value' = value
              /\ raised' = NoException)]_vars

\* C6: a write event for a handle of the registry invokes the write callback
\* of the characteristic the registry maps it to, once, with (connection id,
\* characteristic, value read), and nothing else; no invocation when that
\* characteristic has no write callback.
C6_KnownHandleWriteInvokesItsCallback ==
    (lastOp.op = "write" /\ lastOp.handle \in DOMAIN characteristic_handles)
        => LET c == characteristic_handles[lastOp.handle]
           IN  cbCalls = IF CharWriteCallback(c) # None
                         THEN <<CbCall(CharWriteCallback(c), lastOp.conn, c,
                                       lastOp.value)>>
                         ELSE <<>>

\* C7: add_service with characteristics c1..cN and returned handles h1..hN
\* sets ci.handle = hi and registry[hi] = ci for every i, adds no other
\* entry and leaves the earlier entries as they were.
C7_AddServiceZipsHandles ==
    [][(lastOp'.op = "add_service" /\ raised' = NoException)
          => LET chars == ServiceChars(lastOp'.service)
                 hs == lastOp'.handles
                 new == {hs[i] : i \in DOMAIN hs}
             IN  /\ Len(hs) = Len(chars)
                 /\ \A i \in DOMAIN chars :
                        /\ handle'[chars[i]] = hs[i]
                        /\ hs[i] \in DOMAIN characteristic_handles'
                        /\ characteristic_handles'[hs[i]] = chars[i]
                 /\ DOMAIN characteristic_handles'
                        = (DOMAIN characteristic_handles) \cup new
                 /\ \A h \in (DOMAIN characteristic_handles) \ new :
                        characteristic_handles'[h] = characteristic_handles[h]
       ]_vars

\* C7 witness: the three-characteristic service registered a second time,
\* with handles 4, 5, 6.
C7_Witness ==
    /\ lastOp.op = "add_service"
    /\ raised = NoException
    /\ lastOp.service = "s1"
    /\ lastOp.handles = <<4, 5, 6>>

\* C8: every handle the stack ever issued has an entry in the handle
\* registry, and the entry is the characteristic the handle was issued for.
C8_IssuedHandlesStayRegistered ==
    \A h \in DOMAIN gatts_db :
        /\ h \in DOMAIN characteristic_handles
        /\ characteristic_handles[h] = gatts_db[h]

\* C8 witness: shutdown after two successful registrations.
C8_Witness ==
    lastOp.op = "shutdown" /\ Cardinality(DOMAIN gatts_db) >= 6

\* C9: notify with a uuid that no characteristic of a service of the list
\* has makes no stack call, changes no cached value and not the connection
\* set, reports not-found and does not raise.
C9_NotifyUnknownUuid ==
    [][(lastOp'.op = "notify"
           /\ \A c \in Chars : InServices(c) => CharUuid(c) # lastOp'.uuid)
          => (/\ stackCalls' = <<>>
              /\ value' = value
              /\ connections' = connections
              /\ raised' = NoException
              /\ report' = "not_found")]_vars

\* C9 witness: notify with the unregistered uuid while two centrals are
\* connected and the service is registered.
C9_Witness ==
    /\ lastOp.op = "notify"
    /\ lastOp.uuid = "u9"
    /\ connections = {5, 9}
    /\ handle["c2"] # NoHandle

\* C10: notify with the uuid of a registered characteristic sets its cached
\* value and issues one stack notify per id of the connection set, each with
\* the characteristic's handle and the value, and no other call.
C10_NotifyRegisteredUuid ==
    \A c \in Chars :
        (/\ lastOp.op = "notify"
         /\ CharUuid(c) = lastOp.uuid
         /\ InServices(c)
         /\ handle[c] # NoHandle)
        => /\ value[c] = lastOp.value
           /\ Len(stackCalls) = Cardinality(connections)
           /\ \A conn \in connections :
                  Cardinality({i \in DOMAIN stackCalls :
                      stackCalls[i] = GattsNotify(conn, handle[c], lastOp.value)})
                      = 1
           /\ raised = NoException

\* C10 witness: notify on the registered notify characteristic with the
\* connection set {5, 9}.
C10_Witness ==
    /\ lastOp.op = "notify"
    /\ lastOp.uuid = "u2"
    /\ connections = {5, 9}
    /\ handle["c2"] # NoHandle
    /\ Len(stackCalls) = 2

\* ------------------------------------------------- Channel Router claims

\* The wire grammar of a write: segments separated by ";", each segment
\* "channel:data" with data the remainder after the first ":".
Segments(text) == Split(text, ";")
\* Position of the first ":" of a segment, 0 when it has none.
FirstColon(segment) ==
    IF \A i \in DOMAIN segment : segment[i] # ":" THEN 0
    ELSE CHOOSE i \in DOMAIN segment :
             segment[i] = ":" /\ \A m \in 1..(i - 1) : segment[m] # ":"
ChannelToken(segment) ==
    IF FirstColon(segment) = 0 THEN segment
    ELSE SubSeq(segment, 1, FirstColon(segment) - 1)
Remainder(segment) ==
    SubSeq(segment, FirstColon(segment) + 1, Len(segment))
\* A segment of the grammar: an integer channel token, ":", any data.
WellFormed(segment) ==
    FirstColon(segment) > 0 /\ ParseInt(ChannelToken(segment)).ok
ChannelOf(segment) == ParseInt(ChannelToken(segment)).val

\* C11: every channel callback invoked by a write receives as data the
\* whole remainder of its segment after the segment's first ":".
C11_DataIsRemainderAfterFirstColon ==
    routerOp.op = "write_handler" =>
        \A i \in DOMAIN dispatched :
            dispatched[i].data =
                Remainder(Segments(routerOp.text)[dispatched[i].seg])

\* The first call of the loop: nothing dispatched, nothing printed.
NoCalls == [calls |-> <<>>, aborted |-> FALSE, report |-> "none"]
\* Non-empty segments whose channel token is not an integer.
BadTokenSegments(commands) ==
    {k \in DOMAIN commands :
         commands[k] # <<>> /\ ~ParseInt(ChannelToken(commands[k])).ok}
\* "x:bad;1:up"
TextXBad == <<"x", ":", "b", "a", "d", ";", "1", ":", "u", "p">>
\* "1:up;x:bad;2:left"
TextUpXBadLeft ==
    <<"1", ":", "u", "p", ";", "x", ":", "b", "a", "d", ";",
      "2", ":", "l", "e", "f", "t">>

\* C12: in one write, a non-empty segment whose channel token is not an
\* integer gets no callback, and neither does any later segment; what was
\* dispatched is what the segments before it alone dispatch.  "x:bad;1:up"
\* invokes no callback.
C12_NonIntegerTokenAbortsRest ==
    routerOp.op = "write_handler" =>
        LET commands == Segments(routerOp.text)
        IN  /\ \A k \in BadTokenSegments(commands) :
                   /\ \A i \in DOMAIN dispatched : dispatched[i].seg < k
                   /\ dispatched =
                          RunCommands(channel_callbacks,
                                      SubSeq(commands, 1, k - 1), 1,
                                      NoCalls).calls
            /\ BadTokenSegments(commands) # {} => routerRaised = NoException
            /\ routerOp.text = TextXBad => dispatched = <<>>

\* C12 witness: "1:up;x:bad;2:left" with channels 1 and 2 registered
\* dispatched segment 1 only.
C12_Witness ==
    /\ routerOp.op = "write_handler"
    /\ routerOp.text = TextUpXBadLeft
    /\ {1, 2} \subseteq DOMAIN channel_callbacks
    /\ channel_callbacks[1] = "ch_a"
    /\ Len(dispatched) = 1
    /\ dispatched[1].seg = 1
    /\ aborted

\* "1:up;2:left;3:"
TextUpLeft3 ==
    <<"1", ":", "u", "p", ";", "2", ":", "l", "e", "f", "t", ";", "3", ":">>

\* C13: a channel callback that raises is caught (write_handler returns
\* normally) and is the last callback of that write: no later segment is
\* dispatched.
C13_RaisingCallbackCaughtAndAborts ==
    routerOp.op = "write_handler" =>
        /\ routerRaised = NoException
        /\ \A i \in DOMAIN dispatched :
               ChannelCallbackRaises(dispatched[i].cb) =>
                   /\ i = Len(dispatched)
                   /\ \A j \in DOMAIN dispatched :
                          dispatched[j].seg <= dispatched[i].seg
                   /\ aborted

\* C13 witness: "1:up;2:left;3:" with a raising callback on channel 1 and
\* a callback on channel 2: one call, for segment 1.
C13_Witness ==
    /\ routerOp.op = "write_handler"
    /\ routerOp.text = TextUpLeft3
    /\ {1, 2} \subseteq DOMAIN channel_callbacks
    /\ ChannelCallbackRaises(channel_callbacks[1])
    /\ Len(dispatched) = 1
    /\ dispatched[1].channel = 1
    /\ routerRaised = NoException

\* Segments that leave the loop: a non-empty segment that is not of the
\* grammar, or one whose registered callback raises.
AbortingSegments(reg, commands) ==
    {m \in DOMAIN commands :
         /\ commands[m] # <<>>
         /\ \/ ~WellFormed(commands[m])
            \/ /\ ChannelOf(commands[m]) \in DOMAIN reg
               /\ ChannelCallbackRaises(reg[ChannelOf(commands[m])])}
\* "3:x;1:up"
Text3x1up == <<"3", ":", "x", ";", "1", ":", "u", "p">>

\* C14: a well-formed segment on a channel without a callback invokes
\* nothing and does not end the batch: a later well-formed segment on a
\* registered channel is dispatched (unless a malformed segment or a
\* raising callback before it ended the batch).
C14_UnregisteredChannelDoesNotAbort ==
    routerOp.op = "write_handler" =>
        LET commands == Segments(routerOp.text)
        IN  \A k \in DOMAIN commands :
                (/\ WellFormed(commands[k])
                 /\ ChannelOf(commands[k]) \notin DOMAIN channel_callbacks)
                =>
                /\ \A i \in DOMAIN dispatched : dispatched[i].seg # k
                /\ \A j \in DOMAIN commands :
                       (/\ j > k
                        /\ WellFormed(commands[j])
                        /\ ChannelOf(commands[j]) \in DOMAIN channel_callbacks
                        /\ \A m \in AbortingSegments(channel_callbacks,
                                                     commands) : m >= j)
                       =>
                       \E i \in DOMAIN dispatched :
                           /\ dispatched[i].seg = j
                           /\ dispatched[i].channel = ChannelOf(commands[j])

\* C14 witness: "3:x;1:up" with channel 3 unregistered and channel 1
\* registered dispatched segment 2.
C14_Witness ==
    /\ routerOp.op = "write_handler"
    /\ routerOp.text = Text3x1up
    /\ 3 \notin DOMAIN channel_callbacks
    /\ 1 \in DOMAIN channel_callbacks
    /\ Len(dispatched) = 1
    /\ dispatched[1].seg = 2
    /\ routerReport = "unhandled write"

\* Non-empty segments of a write whose channel has a callback.
RegisteredSegments(reg, commands) ==
    {k \in DOMAIN commands :
         commands[k] # <<>> /\ ChannelOf(commands[k]) \in DOMAIN reg}

\* C15: a write of well-formed and empty segments only, whose registered
\* callbacks do not raise, invokes exactly one callback per non-empty
\* segment on a registered channel, in segment order, with that segment's
\* channel and data (the remainder after its first ":").
C15_WellFormedWriteDispatchesEachSegmentOnce ==
    (/\ routerOp.op = "write_handler"
     /\ AbortingSegments(channel_callbacks, Segments(routerOp.text)) = {})
    =>
    LET commands == Segments(routerOp.text)
        hit == RegisteredSegments(channel_callbacks, commands)
    IN  /\ Len(dispatched) = Cardinality(hit)
        /\ \A i \in DOMAIN dispatched :
               /\ dispatched[i].seg \in hit
               /\ \A j \in DOMAIN dispatched :
                      i < j => dispatched[i].seg < dispatched[j].seg
               /\ dispatched[i].channel = ChannelOf(commands[dispatched[i].seg])
               /\ dispatched[i].cb = channel_callbacks[dispatched[i].channel]
               /\ dispatched[i].data = Remainder(commands[dispatched[i].seg])

\* C16: a write left by a break changes nothing the next write depends on:
\* no write changes the registry, and a write after an aborted one, if it
\* has only well-formed and empty segments and callbacks that do not raise,
\* is not aborted, reaches every non-empty segment on a registered channel
\* and dispatches what the registry and its own text alone determine.
C16_AbortAffectsCurrentWriteOnly ==
    [][routerOp'.op = "write_handler" =>
          /\ channel_callbacks' = channel_callbacks
          /\ (/\ aborted
              /\ AbortingSegments(channel_callbacks,
                                  Segments(routerOp'.text)) = {})
             =>
             /\ ~aborted'
             /\ {dispatched'[i].seg : i \in DOMAIN dispatched'} =
                    RegisteredSegments(channel_callbacks,
                                       Segments(routerOp'.text))
             /\ dispatched' =
                    WriteHandlerResult(channel_callbacks,
                                       routerOp'.text).calls]_allVars

\* C16 witness: right after an aborted write, "1:up;2:left;3:" was
\* dispatched to all three channels.
C16_Witness ==
    /\ routerOp.op = "write_handler"
    /\ abortedBefore
    /\ routerOp.text = TextUpLeft3
    /\ DOMAIN channel_callbacks = {1, 2, 3}
    /\ Len(dispatched) = 3
    /\ ~aborted

\* C20: register_channel(channel, cb) makes cb the callback of channel and
\* leaves every other entry as it was; no method removes an entry; a
\* callback invoked for a channel is the one the registry holds for it,
\* which is the one registered last.
C20_LastChannelRegistrationWins ==
    [][/\ DOMAIN channel_callbacks \subseteq DOMAIN channel_callbacks'
       /\ routerOp'.op = "register_channel" =>
              /\ routerOp'.channel \in DOMAIN channel_callbacks'
              /\ channel_callbacks'[routerOp'.channel] = routerOp'.cb
              /\ \A c \in DOMAIN channel_callbacks' \ {routerOp'.channel} :
                     /\ c \in DOMAIN channel_callbacks
                     /\ channel_callbacks'[c] = channel_callbacks[c]
       /\ routerOp'.op # "register_channel" =>
              channel_callbacks' = channel_callbacks
       /\ \A i \in DOMAIN dispatched' :
              /\ dispatched'[i].channel \in DOMAIN channel_callbacks
              /\ dispatched'[i].cb =
                     channel_callbacks[dispatched'[i].channel]]_allVars

\* C20 witness: channel 1, registered with the raising callback, was
\* registered again with "ch_a"; channel 2 keeps its callback.
C20_Witness ==
    /\ routerOp.op = "register_channel"
    /\ routerOp.channel = 1
    /\ routerOp.cb = "ch_a"
    /\ replacedCb = "ch_raise"
    /\ DOMAIN channel_callbacks = {1, 2}
    /\ channel_callbacks[1] = "ch_a"
    /\ channel_callbacks[2] = "ch_raise"

\* ------------------------------------------------ manager claims, 17-19

\* C17: after shutdown(), from any state, the connection set is empty, an
\* advertising stop (gap_advertise(None)) and a radio deactivation
\* (active(False)) were requested and nothing was raised; the same holds
\* for a shutdown() that directly follows a shutdown().
C17_ShutdownClearsStopsDeactivates ==
    /\ [](lastOp.op = "shutdown" =>
              /\ connections = {}
              /\ \E i \in DOMAIN stackCalls :
                     stackCalls[i] = GapAdvertise(NoInterval)
              /\ \E i \in DOMAIN stackCalls : stackCalls[i] = Active(FALSE)
              /\ StartRequests(stackCalls) = 0
              /\ raised = NoException)
    /\ [][(lastOp.op = "shutdown" /\ lastOp'.op = "shutdown") =>
              /\ connections' = {}
              /\ raised' = NoException
              /\ progVars' = progVars]_allVars

\* C17 witness: shutdown with connection ids that connected and did not
\* disconnect; the set is empty.
C17_Witness ==
    /\ lastOp.op = "shutdown"
    /\ observed = {5, 9}
    /\ connections = {}
    /\ Len(stackCalls) = 2

\* Whether a list of stack calls holds an advertising request.
AdvertisingRequests(calls) ==
    {i \in DOMAIN calls : calls[i].call = "gap_advertise"}

\* C18: a set_tx_power call that the stack rejects raises nothing, makes
\* no advertising request and leaves the connection set, the service list,
\* the handle registry and both callbacks as they were; a rejection inside
\* the constructor leaves the manager as constructed.
C18_RejectedTxPowerChangesNothing ==
    /\ [][(lastOp'.op = "set_tx_power" /\ lastOp'.rejected) =>
              /\ raised' = NoException
              /\ progVars' = progVars
              /\ gatts_db' = gatts_db
              /\ stackCalls' = <<Config(lastOp'.power)>>
              /\ AdvertisingRequests(stackCalls') = {}
              /\ report' = "tx_power_error"]_allVars
    /\ [](lastOp.op = "init" /\ lastOp.rejected =>
              /\ raised = NoException
              /\ connections = {}
              /\ services = <<>>
              /\ characteristic_handles = <<>>
              /\ connect_callback = None
              /\ disconnect_callback = None
              /\ AdvertisingRequests(stackCalls) = {})

\* C18 witness: a rejected set_tx_power with a connection, a registered
\* service and a connect callback in place.
C18_Witness ==
    /\ lastOp.op = "set_tx_power"
    /\ lastOp.rejected
    /\ connections = {5}
    /\ services # <<>>
    /\ DOMAIN characteristic_handles # {}
    /\ connect_callback = "cb_ok"
    /\ report = "tx_power_error"
    /\ raised = NoException

\* The single invocation callback(conn) of a registered callback, none when
\* no callback is registered.
OnlyCall(cb, conn) ==
    IF cb = None THEN <<>> ELSE <<CbCall(cb, conn, None, EmptyBytes)>>

\* C19: a registration replaces the callback of its kind and nothing else
\* does; a connect event for X leaves X in the connection set (also when
\* the callback raises, the insertion coming first) and invokes exactly
\* once, with X, the connect callback registered last, or nothing when none
\* is registered; a disconnect event does the same with the disconnect
\* callback.
C19_LastRegisteredCallbackInvokedOnce ==
    [][/\ lastOp'.op = "register_connect_callback" =>
              /\ connect_callback' = lastOp'.cb
              /\ disconnect_callback' = disconnect_callback
       /\ lastOp'.op = "register_disconnect_callback" =>
              /\ disconnect_callback' = lastOp'.cb
              /\ connect_callback' = connect_callback
       /\ lastOp'.op \notin {"register_connect_callback",
                             "register_disconnect_callback"} =>
              /\ connect_callback' = connect_callback
              /\ disconnect_callback' = disconnect_callback
       /\ lastOp'.op = "connect" =>
              /\ lastOp'.conn \in connections'
              /\ cbCalls' = OnlyCall(connect_callback, lastOp'.conn)
       /\ lastOp'.op = "disconnect" =>
              /\ lastOp'.conn \notin connections'
              /\ cbCalls' = OnlyCall(disconnect_callback, lastOp'.conn)
      ]_allVars

\* C19 witness: a connect event for 9 with "cb_ok" as connect callback and
\* "cb_raise" as disconnect callback: one call, cb_ok(9), and 9 is in the
\* set.
C19_Witness ==
    /\ lastOp.op = "connect"
    /\ lastOp.conn = 9
    /\ connect_callback = "cb_ok"
    /\ disconnect_callback = "cb_raise"
    /\ cbCalls = <<CbCall("cb_ok", 9, None, EmptyBytes)>>
    /\ 9 \in connections

\* ------------------------------------------- advertisement builder claims

\* A payload read as [length][type][value] structures, length counting the
\* type and value bytes; bytes that do not form a structure are returned
\* as one structure of type 0.
RECURSIVE ParseAd(_)
ParseAd(p) ==
    IF p = <<>> THEN <<>>
    ELSE IF p[1] = 0 \/ p[1] + 1 > Len(p)
         THEN <<[type |-> 0, value |-> p]>>
    ELSE <<[type |-> p[2], value |-> SubSeq(p, 3, p[1] + 1)]>>
         \o ParseAd(SubSeq(p, p[1] + 2, Len(p)))

\* UTF-8 bytes read back as code points.
RECURSIVE Utf8Decode(_)
Utf8Decode(b) ==
    IF b = <<>> THEN <<>>
    ELSE IF b[1] < 128 THEN <<b[1]>> \o Utf8Decode(SubSeq(b, 2, Len(b)))
    ELSE IF b[1] < 224
         THEN <<(b[1] - 192) * 64 + (b[2] - 128)>>
              \o Utf8Decode(SubSeq(b, 3, Len(b)))
    ELSE IF b[1] < 240
         THEN <<(b[1] - 224) * 4096 + (b[2] - 128) * 64 + (b[3] - 128)>>
              \o Utf8Decode(SubSeq(b, 4, Len(b)))
    ELSE <<(b[1] - 240) * 262144 + (b[2] - 128) * 4096
               + (b[3] - 128) * 64 + (b[4] - 128)>>
         \o Utf8Decode(SubSeq(b, 5, Len(b)))

\* Number of bytes of the UTF-8 form of a name, counted per code point.
RECURSIVE Utf8Length(_)
Utf8Length(s) ==
    IF s = <<>> THEN 0
    ELSE (IF Head(s) < 128 THEN 1 ELSE IF Head(s) < 2048 THEN 2
          ELSE IF Head(s) < 65536 THEN 3 ELSE 4) + Utf8Length(Tail(s))

\* A UUID read back from the 16 bytes of its structure.
UuidFromBytes(b) == [i \in 1..Len(b) |-> b[Len(b) + 1 - i]]

\* C21: add_service_uuid appends (no de-duplication); the advertising
\* payload is 02 01 06 followed, for the k-th UUID added, by 17, 0x07 and
\* the UUID's 16 bytes at offset 3 + 18 (k - 1), N x 18 bytes in all; the
\* scan response is [len + 1, 0x09] and the len bytes of the UTF-8 name;
\* read as [length][type][value] structures they give back the flags 0x06,
\* every UUID in order and the name.  start submits exactly these.
C21_PayloadLayoutAndRoundTrip ==
    /\ [][advOp'.op = "add_service_uuid" =>
              service_uuids' = Append(service_uuids, advOp'.uuid)]_allVars
    /\ [](LET adv == BuildAdvPayload(service_uuids)
              resp == BuildScanResponse(adv_name)
              n == Len(service_uuids)
              len == Utf8Length(adv_name)
          IN  /\ Len(adv) = 3 + n * 18
              /\ SubSeq(adv, 1, 3) = <<2, 1, 6>>
              /\ \A k \in 1..n :
                     LET at == 3 + 18 * (k - 1)
                     IN  /\ adv[at + 1] = 17
                         /\ adv[at + 2] = 7
                         /\ Len(UuidBytes(service_uuids[k])) = 16
                         /\ SubSeq(adv, at + 3, at + 18) =
                                UuidBytes(service_uuids[k])
              /\ Len(resp) = len + 2
              /\ resp[1] = len + 1
              /\ resp[2] = 9
              /\ Utf8Decode(SubSeq(resp, 3, Len(resp))) = adv_name
              /\ Len(ParseAd(adv)) = n + 1
              /\ ParseAd(adv)[1] = [type |-> 1, value |-> <<6>>]
              /\ \A k \in 1..n :
                     /\ ParseAd(adv)[k + 1].type = 7
                     /\ UuidFromBytes(ParseAd(adv)[k + 1].value) =
                            service_uuids[k]
              /\ Len(ParseAd(resp)) = 1
              /\ ParseAd(resp)[1].type = 9
              /\ Utf8Decode(ParseAd(resp)[1].value) = adv_name
              /\ advOp.op = "start" =>
                     /\ Len(advCalls) = 1
                     /\ advCalls[1].adv_data = adv
                     /\ advCalls[1].resp_data = resp)

\* C21 witness: start with the same UUID added twice and a name of two
\* code points, the euro sign and "a" (four bytes of UTF-8).
C21_Witness ==
    /\ advOp.op = "start"
    /\ Len(service_uuids) = 2
    /\ service_uuids[1] = service_uuids[2]
    /\ adv_name = <<8364, 97>>
    /\ Len(advCalls[1].adv_data) = 39
    /\ Len(advCalls[1].resp_data) = 6

\* C22: every start(interval) call, whatever came before it, submits one
\* advertise request with that interval and the payloads of the current
\* name and UUID list, raises nothing and leaves name and list as they
\* were; a start right after a start with the same interval submits the
\* same request; stop while the radio is not advertising raises nothing
\* and leaves it not advertising.
C22_StartRepeatableStopIdempotent ==
    [][/\ advOp'.op = "start" =>
              /\ advCalls' =
                     <<GapAdvertiseData(advOp'.interval,
                                        BuildAdvPayload(service_uuids),
                                        BuildScanResponse(adv_name))>>
              /\ advRaised' = NoException
              /\ advertising'
              /\ adv_name' = adv_name
              /\ service_uuids' = service_uuids
       /\ (/\ advOp.op = "start"
           /\ advOp'.op = "start"
           /\ advOp'.interval = advOp.interval) => advCalls' = advCalls
       /\ (advOp'.op = "stop" /\ ~advertising) =>
              /\ advRaised' = NoException
              /\ ~advertising'
              /\ advCalls' = <<GapAdvertiseStop>>
              /\ adv_name' = adv_name
              /\ service_uuids' = service_uuids
      ]_allVars

\* C22 witness: start(250) right after start(250), with one UUID added.
C22_Witness ==
    /\ advOp.op = "start"
    /\ advPrevOp.op = "start"
    /\ advOp.interval = 250
    /\ advPrevOp.interval = 250
    /\ Len(service_uuids) = 1
    /\ advCalls[1].interval = 250
    /\ advertising

\* ------------------------------------------------ manager claims, 23, 26

\* C23: in every state every characteristic of every service of the
\* service list has a handle, which the handle registry maps back to it,
\* and no gatts_notify call is made with an absent handle.
C23_ListedCharacteristicsHaveHandles ==
    /\ \A c \in Chars :
           InServices(c) =>
               /\ handle[c] # NoHandle
               /\ handle[c] \in DOMAIN characteristic_handles
               /\ characteristic_handles[handle[c]] = c
    /\ \A i \in DOMAIN stackCalls :
           stackCalls[i].call = "gatts_notify" =>
               stackCalls[i].handle # NoHandle

\* ------------------------------------------------- construction claims

\* C24: whenever write_handler has run, self.channel_callbacks had been
\* assigned: no write event delivered during the constructor steps that
\* follow add_service and advertising.start() reaches write_handler before
\* line 41.
C24_RegistryExistsBeforeAnyWrite ==
    routerOp.op = "write_handler" => registry_exists

\* ------------------------------------------- Channel Router claims, 25

\* "5;1:up"
Text5Then1up == <<"5", ";", "1", ":", "u", "p">>

\* C25: a non-empty segment without ":" is malformed, also when it is an
\* integer: no callback for it or for a later segment of the write, no
\* exception, and the loop is left with "invalid channel type".
C25_SegmentWithoutColonAborts ==
    routerOp.op = "write_handler" =>
        LET commands == Segments(routerOp.text)
        IN  \A k \in DOMAIN commands :
                (commands[k] # <<>> /\ FirstColon(commands[k]) = 0) =>
                    /\ \A i \in DOMAIN dispatched : dispatched[i].seg < k
                    /\ routerRaised = NoException
                    /\ aborted

\* C25 witness: "5;1:up" with a callback that does not raise on channel 1:
\* nothing dispatched.
C25_Witness ==
    /\ routerOp.op = "write_handler"
    /\ routerOp.text = Text5Then1up
    /\ 1 \in DOMAIN channel_callbacks
    /\ channel_callbacks[1] = "ch_a"
    /\ dispatched = <<>>
    /\ aborted
    /\ routerReport = "invalid channel type"
    /\ routerRaised = NoException

\* ------------------------------------------------ manager claims, 26

\* C26: a disconnect event for an id that is not in the connection set
\* raises nothing, leaves the set as it was, invokes the disconnect
\* callback (if one is registered) once and restarts advertising once; a
\* connect event for an id already in the set raises nothing and leaves
\* the set as it was.
C26_StrayDisconnectAndRepeatedConnect ==
    [][/\ (lastOp'.op = "disconnect" /\ lastOp'.conn \notin connections) =>
              /\ raised' = NoException
              /\ connections' = connections
              /\ cbCalls' = OnlyCall(disconnect_callback, lastOp'.conn)
              /\ StartRequests(stackCalls') = 1
       /\ (lastOp'.op = "connect" /\ lastOp'.conn \in connections) =>
              /\ raised' = NoException
              /\ connections' = connections
              /\ lastOp'.conn \in connections'
      ]_allVars
====
